---- MODULE Spec2Model ----
(***************************************************************************)
(* Hybrid-Water-Sim: the WaterScene component's per-frame loop (animate),  *)
(* its ping-pong ripple buffers, the discrete impact lists, the pointer    *)
(* handlers and the mount / cleanup of the scene effect.                   *)
(*                                                                         *)
(* Units.  Clock time is counted in whole seconds.  UV coordinates are     *)
(* integers in units of 1/UVOne (UVOne = 16 * 4000), which makes both the  *)
(* world-to-UV projection (x + 2000) / 4000 and the texel centres of the   *)
(* 256 x 256 grid exact.  Impact strength is counted in tenths.            *)
(***************************************************************************)
EXTENDS Integers, Sequences, FiniteSets, TLC

VARIABLES
    mounted,            \* the scene effect is active (between effect body and cleanup)
    mounts,             \* how many times the effect body has run
    containerRef,       \* containerRef.current: "attached" or "null"
    pointerListening,   \* pointermove / pointerleave / pointerdown registered on the container
    resizeListening,    \* handleResize registered on window
    rendererSize,       \* size last given to renderer.setSize / composer.setSize
    rafPending,         \* ids of requested animation frames not yet run or cancelled
    frameIdRef,         \* frameIdRef.current
    time,               \* clockRef.current.getElapsedTime()
    config,             \* configRef.current (the fields the loop and handlers read)
    discreteImpactsRef, \* discreteImpactsRef.current
    textureImpactsToProcessRef, \* textureImpactsToProcessRef.current
    spawned,            \* history: every impact ever pushed, in push order
    renderTargetA,      \* renderTargetA.current (buffer id, 0 = null)
    renderTargetB,      \* renderTargetB.current
    disposed,           \* buffers and post-processing targets that were disposed
    simUniforms,        \* simMaterial.uniforms
    waterUniforms,      \* waterMat.uniforms (tRipple and the vertex impact fields)
    isInteracting,      \* isInteracting.current
    simPass,            \* what the last ripple pass (renderer.render into B) read and wrote
    presented,          \* what the last composer.render() drew with
    frameOps,           \* the render calls of the last execution of animate, in order
    frameTime,          \* `time` of the last executed frame
    skyboxUrl,          \* config.skyboxUrl
    loads,              \* asset loads requested and not yet completed
    skyTextureRef,      \* skyTextureRef.current (0 = null, else the url it was loaded from)
    envMapRef,          \* envMapRef.current (0 = null)
    textures,           \* the tSky and tNormalMap uniforms of the materials
    cameraBelow,        \* the camera is below the wave height at its position
    isUnderwater,       \* isUnderwater.current
    scene,              \* scene.background and scene.environment
    sceneFog,           \* scene.fog (NoFog = null)
    raysVisible,        \* raysGroupRef.current.visible
    simResolution,      \* width = height of the two ripple buffers (0 = none yet)
    shader,             \* a shader function under evaluation: its inputs and its result
    logs,               \* MetaPrototype's logs state (the console)
    waterConfig,        \* MetaPrototype's waterConfig state, as a JSON value
    codeText,           \* MetaPrototype's codeText state (the code panel's text)
    isSplitView         \* MetaPrototype's isSplitView state

vars == << mounted, mounts, containerRef, pointerListening, resizeListening,
           rendererSize, rafPending, frameIdRef, time, config,
           discreteImpactsRef, textureImpactsToProcessRef, spawned,
           renderTargetA, renderTargetB, disposed, simUniforms, waterUniforms,
           isInteracting, simPass, presented, frameOps, frameTime,
           skyboxUrl, loads, skyTextureRef, envMapRef, textures, cameraBelow,
           isUnderwater, scene, sceneFog, raysVisible, simResolution, shader,
           logs, waterConfig, codeText, isSplitView >>

\* the variables of the scene (all but `shader`)
sceneVars == << mounted, mounts, containerRef, pointerListening, resizeListening,
                rendererSize, rafPending, frameIdRef, time, config,
                discreteImpactsRef, textureImpactsToProcessRef, spawned,
                renderTargetA, renderTargetB, disposed, simUniforms, waterUniforms,
                isInteracting, simPass, presented, frameOps, frameTime,
                skyboxUrl, loads, skyTextureRef, envMapRef, textures, cameraBelow,
                isUnderwater, scene, sceneFog, raysVisible, simResolution >>

\* the state of the app component around the scene
appVars == << logs, waterConfig, codeText, isSplitView >>

\* what the asset loaders and the camera controls own
loaderVars == << skyboxUrl, loads, skyTextureRef, envMapRef, textures, cameraBelow >>

\* what only animate writes of the scene's environment
frameEnvVars == << scene, isUnderwater, sceneFog, raysVisible >>

----------------------------------------------------------------------------
(* Bounds of the model *)

MaxTime == 1
MaxSpawns == 1
MaxMounts == 2
\* impacts over their lifetime (SpecImpacts)
ImpactTime == 5
\* bursts of spawns (SpecBurst)
BurstSpawns == 11

(* Program constants *)

MAX_IMPACTS == 10
LIFETIME == 5
PlaneSize == 4000
HalfPlane == 2000
simSize == 256
impactStrength == 18

UVOne == 16 * PlaneSize
TexelHalf == UVOne \div (2 * simSize)
rippleRadius == (3 * UVOne) \div 100
OffScreen == << (0 - 10) * UVOne, (0 - 10) * UVOne >>

(* Inputs: where a pointer ray meets the interaction plane (world x, z),     *)
(* where Math.random() puts a random impact (within 75 of the centre; a      *)
(* pointer can hit there too), the texels observed, viewports.               *)
PointerTarget == << 1000, 0 - 500 >>
RandomTarget == << 0 - 75, 30 >>
Cells == { << 128, 128 >>, << 192, 160 >>, << 0, 0 >> }
\* the radii the control panel can configure: 0.01 .. 0.20
RadiusRange == { (r * UVOne) \div 100 : r \in 1..20 }

Viewports == { 1, 2 }

\* the skybox options (urls), the first being the initial config.skyboxUrl,
\* and the normal map url
Skyboxes == { 1, 2 }
DefaultSkybox == 1
NormalMapUrl == 1

----------------------------------------------------------------------------
(* Helpers *)

Min(a, b) == IF a < b THEN a ELSE b

Take(s, n) == SubSeq(s, 1, Min(n, Len(s)))

Range(s) == { s[i] : i \in 1..Len(s) }

ZeroVec3 == << 0, 0, 0 >>
ZeroVec4 == << 0, 0, 0, 0 >>

\* while (impactData.length < MAX_IMPACTS) impactData.push(zero)
Pad(data, zero) == data \o [ i \in 1..(MAX_IMPACTS - Len(data)) |-> zero ]

\* (i.x + 2000) / 4000, (-i.z + 2000) / 4000, in units of 1/UVOne
ToU(x) == ((x + HalfPlane) * UVOne) \div PlaneSize
ToV(z) == (((0 - z) + HalfPlane) * UVOne) \div PlaneSize

\* centre of texel c of the simSize x simSize grid (vUv of the fragment)
CellUV(c) == << (2 * c[1] + 1) * TexelHalf, (2 * c[2] + 1) * TexelHalf >>

Dist2(p, q) == (p[1] - q[1]) * (p[1] - q[1]) + (p[2] - q[2]) * (p[2] - q[2])

Abs(n) == IF n < 0 THEN 0 - n ELSE n

\* distance(p, q) < r; the squares are taken only of offsets below r
InRadius(p, q, r) ==
    /\ Abs(p[1] - q[1]) < r
    /\ Abs(p[2] - q[2]) < r
    /\ Dist2(p, q) < r * r

----------------------------------------------------------------------------
(* The pieces of the code, one operator each *)

\* interface Impact { x, z, strength, startTime }; id is the object's identity
NewImpact(n, target, now) ==
    [ id |-> n, x |-> target[1], z |-> target[2],
      strength |-> impactStrength, startTime |-> now ]

\* faulty variants of the age-out filter: one that drops every impact, one
\* that keeps an impact at the age of exactly 5.0
AgeOutAll(list, now) == << >>

AgeOutInclusive(list, now) == SelectSeq(list, LAMBDA i : now - i.startTime <= LIFETIME)

\* discreteImpactsRef.current.filter(i => time - i.startTime < 5.0)
AgeOut(list, now) == SelectSeq(list, LAMBDA i : now - i.startTime < LIFETIME)

\* faulty variant: the list is handed over whole
SliceNothing(list) == list

\* textureImpactsToProcessRef.current.slice(0, MAX_IMPACTS)
\* discreteImpactsRef.current.slice(0, MAX_IMPACTS)
SliceImpacts(list) == Take(list, MAX_IMPACTS)

\* impacts.map(i => new THREE.Vector3((i.x + 2000) / 4000, (-i.z + 2000) / 4000, i.strength))
TextureImpactData(impacts) ==
    Pad([ k \in 1..Len(impacts) |->
            << ToU(impacts[k].x), ToV(impacts[k].z), impacts[k].strength >> ], ZeroVec3)

\* impacts.map(i => new THREE.Vector4(i.x, i.z, i.strength, i.startTime))
VertexImpactData(impacts) ==
    Pad([ k \in 1..Len(impacts) |->
            << impacts[k].x, impacts[k].z, impacts[k].strength, impacts[k].startTime >> ],
        ZeroVec4)

\* faulty variant: the texture-impact branch without the useTextureImpacts test
ConsumeIgnoringToggle(cfg, queue) == SliceImpacts(queue)

\* the texture-impact branch of animate: which impacts this step consumes
ConsumeTextureImpacts(cfg, queue) ==
    IF cfg.useTextureImpacts /\ Len(queue) > 0 THEN SliceImpacts(queue) ELSE << >>

\* faulty variant: the consumed impacts stay in the queue
RemainingKeepsQueue(cfg, queue) == queue

\* ... and what it leaves in the queue
RemainingTextureImpacts(cfg, queue) ==
    IF cfg.useTextureImpacts /\ Len(queue) > 0 THEN << >> ELSE queue

\* new THREE.WebGLRenderTarget(simSize, simSize, rtOptions): the k-th buffer of a mount
NewRenderTarget(mount, k) == 2 * mount + k

\* faulty variants of the swap: both roles on one buffer, and no swap at all
SwapBuffersAlias(a, b) == << b, b >>

SwapBuffersNone(a, b) == << a, b >>

\* const temp = A.current; A.current = B.current; B.current = temp
SwapBuffers(a, b) == << b, a >>

\* requestAnimationFrame: a handle that names no other pending request
RequestAnimationFrame(pending, last) ==
    CHOOSE n \in 1..(Cardinality(pending) + 2) : n \notin pending /\ n # last

\* faulty variant: a cleanup that leaves the requested frame pending
CancelNothing(pending, id) == pending

\* cancelAnimationFrame(id)
CancelAnimationFrame(pending, id) == pending \ { id }

\* faulty variant: a gate that does not look at the mouse button
PrimaryGateAnyButton(e) == e.isPrimary

\* the pointer-down gate: !e.isPrimary || (e.pointerType === 'mouse' && e.button !== 0)
PrimaryGate(e) == e.isPrimary /\ ~(e.pointerType = "mouse" /\ e.button # 0)

\* rippleFragmentShader, discrete impacts: the entries i < uImpactCount whose
\* distance to the fragment is below uRadius subtract impact.z * falloff > 0
RippleImpactHits(cell, u) ==
    { i \in 1..MAX_IMPACTS :
        /\ u.uImpactCount > 0
        /\ i <= u.uImpactCount
        /\ InRadius(CellUV(cell), << u.uImpacts[i][1], u.uImpacts[i][2] >>, u.uRadius)
        /\ u.uImpacts[i][3] # 0 }

\* rippleFragmentShader, mouse interaction
RippleBrushHit(cell, u) ==
    u.uMouseDown /\ InRadius(CellUV(cell), u.uMouse, u.uRadius)

\* waterVertexShader, vertex impacts: the entries that displace vertices
VertexImpactActive(w) ==
    { i \in 1..MAX_IMPACTS :
        /\ w.uUseVertexImpacts
        /\ w.uVertexImpactCount > 0
        /\ i <= w.uVertexImpactCount
        /\ w.uTime - w.uVertexImpacts[i][4] > 0
        /\ w.uTime - w.uVertexImpacts[i][4] < LIFETIME }

----------------------------------------------------------------------------
(* The app component: JSON text of the code panel and the console log.      *)
(* A text is the sequence of its JSON tokens (white space, which JSON.parse  *)
(* skips and JSON.stringify(..., null, 2) inserts, is left out).  A JSON     *)
(* value is a number or an object whose members are numbers, kept in         *)
(* insertion order as JavaScript keeps them.                                 *)

\* the number tokens of the model and the numbers they denote
NumberTokens == { "0", "50", "250" }

NumberOf(token) == IF token = "0" THEN 0 ELSE IF token = "50" THEN 50 ELSE 250

NumberToken(n) == IF n = 0 THEN "0" ELSE IF n = 50 THEN "50" ELSE "250"

\* the string tokens (member names, quoted in the text)
KeyTokens == { "fogCutoffStart", "fogCutoffEnd" }

JSONNumber(n) == [ type |-> "number", num |-> n, members |-> << >> ]

JSONObject(members) == [ type |-> "object", num |-> 0, members |-> members ]

\* obj[key] = n on an object's member list: an existing key keeps its place
SetMember(members, key, n) ==
    IF \E i \in 1..Len(members) : members[i].key = key
    THEN [ i \in 1..Len(members) |->
             IF members[i].key = key THEN [ key |-> key, num |-> n ] ELSE members[i] ]
    ELSE Append(members, [ key |-> key, num |-> n ])

\* the tokens of  "key": n  for each member, separated by commas
RECURSIVE MemberTokens(_)
MemberTokens(members) ==
    IF members = << >> THEN << >>
    ELSE LET m == members[1]
             first == << m.key, ":", NumberToken(m.num) >>
         IN  IF Len(members) = 1 THEN first
             ELSE first \o << "," >> \o MemberTokens(Tail(members))

JSON_stringify(value) ==
    IF value.type = "number" THEN << NumberToken(value.num) >>
    ELSE << "{" >> \o MemberTokens(value.members) \o << "}" >>

SyntaxError == [ ok |-> FALSE, value |-> JSONNumber(0) ]

\* member (',' member)* , each member  string ':' number
RECURSIVE ParseMembers(_, _)
ParseMembers(tokens, members) ==
    IF Len(tokens) < 3 THEN SyntaxError
    ELSE IF ~(tokens[1] \in KeyTokens /\ tokens[2] = ":" /\ tokens[3] \in NumberTokens)
    THEN SyntaxError
    ELSE LET next == SetMember(members, tokens[1], NumberOf(tokens[3]))
         IN  IF Len(tokens) = 3 THEN [ ok |-> TRUE, value |-> JSONObject(next) ]
             ELSE IF tokens[4] # "," THEN SyntaxError
             ELSE ParseMembers(SubSeq(tokens, 5, Len(tokens)), next)

\* JSON.parse: the value, or ok = FALSE where it throws SyntaxError
JSON_parse(tokens) ==
    IF Len(tokens) = 1 /\ tokens[1] \in NumberTokens
    THEN [ ok |-> TRUE, value |-> JSONNumber(NumberOf(tokens[1])) ]
    ELSE IF Len(tokens) >= 2 /\ tokens[1] = "{" /\ tokens[Len(tokens)] = "}"
    THEN IF Len(tokens) = 2 THEN [ ok |-> TRUE, value |-> JSONObject(<< >>) ]
         ELSE ParseMembers(SubSeq(tokens, 2, Len(tokens) - 1), << >>)
    ELSE SyntaxError

\* useState<WaterConfig>({...}): the fog cutoff fields of the initial configuration
InitialWaterConfig ==
    JSONObject(<< [ key |-> "fogCutoffStart", num |-> 50 ],
                  [ key |-> "fogCutoffEnd", num |-> 250 ] >>)

AppInit ==
    /\ logs = << >>
    /\ waterConfig = InitialWaterConfig
    /\ codeText = JSON_stringify(InitialWaterConfig)
    /\ isSplitView = FALSE

----------------------------------------------------------------------------
(* Initial state: the component is rendered, the effect has not run yet *)

\* scene.fog = null
NoFog == [ color |-> 0, near |-> 0, far |-> 0 ]

\* underwaterFogColor values: 1 is the initial "#e7e1ed"
FogColors == { 1, 2 }

InitialConfig ==
    [ useTextureImpacts |-> TRUE, useVertexImpacts |-> TRUE, mouseHoverEnabled |-> FALSE,
      underwaterFogColor |-> 1, fogCutoffStart |-> 50, fogCutoffEnd |-> 250,
      \* damping in thousandths, strength and viscosity in hundredths, radius in UV units
      rippleDamping |-> 950, rippleStrength |-> 10, rippleRadius |-> rippleRadius,
      rippleViscosity |-> 0 ]

\* new THREE.ShaderMaterial({ ... uniforms ... }) of the ripple simulation
NewSimUniforms ==
    [ tDiffuse |-> 0,
      uMouse |-> OffScreen,
      uMouseDown |-> FALSE,
      uStrength |-> 10,
      uRadius |-> rippleRadius,
      uDamping |-> 950,
      uImpacts |-> [ i \in 1..MAX_IMPACTS |-> ZeroVec3 ],
      uImpactCount |-> 0 ]

\* the ripple constants the config effect (and the material's construction)
\* copies from the configuration into the simulation uniforms
PhysicsUniforms(u, cfg) ==
    [ u EXCEPT !.uDamping = cfg.rippleDamping, !.uStrength = cfg.rippleStrength,
               !.uRadius = cfg.rippleRadius ]

\* the tRipple, uTime and vertex impact uniforms of waterMat
NewWaterUniforms(cfg) ==
    [ tRipple |-> 0,
      uTime |-> 0,
      uUseVertexImpacts |-> cfg.useVertexImpacts,
      uVertexImpacts |-> [ i \in 1..MAX_IMPACTS |-> ZeroVec4 ],
      uVertexImpactCount |-> 0 ]

NoPass == [ read |-> 0, write |-> 0, uniforms |-> NewSimUniforms, impacts |-> << >> ]

\* tSky: { value: defaultTex }, tNormalMap: the texture object whose image is
\* still loading (0 = placeholder / not loaded)
NewTextures == [ tSky |-> 0, tNormalMap |-> 0 ]

\* no shader function is under evaluation
NoShader == [ fn |-> "none" ]

SceneInit ==
    /\ mounted = FALSE
    /\ mounts = 0
    /\ containerRef = "attached"
    /\ pointerListening = FALSE
    /\ resizeListening = FALSE
    /\ rendererSize = 1
    /\ rafPending = {}
    /\ frameIdRef = 0
    /\ time = 0
    /\ config = InitialConfig
    /\ discreteImpactsRef = << >>
    /\ textureImpactsToProcessRef = << >>
    /\ spawned = << >>
    /\ renderTargetA = 0
    /\ renderTargetB = 0
    /\ disposed = {}
    /\ simUniforms = NewSimUniforms
    /\ waterUniforms = NewWaterUniforms(InitialConfig)
    /\ isInteracting = FALSE
    /\ simPass = NoPass
    /\ presented = [ tRipple |-> 0 ]
    /\ frameOps = << >>
    /\ frameTime = 0
    /\ skyboxUrl = DefaultSkybox
    /\ loads = {}
    /\ skyTextureRef = 0
    /\ envMapRef = 0
    /\ textures = NewTextures
    /\ cameraBelow = FALSE
    /\ isUnderwater = FALSE
    /\ scene = [ background |-> [ kind |-> "none", tex |-> 0 ], environment |-> 0 ]
    /\ sceneFog = NoFog
    /\ raysVisible = FALSE
    /\ simResolution = 0

Init == SceneInit /\ AppInit /\ shader = NoShader

----------------------------------------------------------------------------
\* faulty variant: a surface state that shows the sky reference without testing it
SceneEnvironmentUntested(below, sky, env, fogColor) ==
    IF below
    THEN [ background |-> [ kind |-> "fog", tex |-> fogColor ], environment |-> 0 ]
    ELSE [ background |-> [ kind |-> "sky", tex |-> sky ], environment |-> env ]

\* faulty variant: an existing fog is kept as it is under water
SceneFogCreateOnly(below, fog, cfg) ==
    IF below
    THEN IF fog = NoFog
         THEN [ color |-> cfg.underwaterFogColor, near |-> cfg.fogCutoffStart,
                far |-> cfg.fogCutoffEnd ]
         ELSE fog
    ELSE NoFog

\* scene.fog as animate sets it: under water a fog is created, or the existing
\* one updated, from the configured colour and range; above water it is null
SceneFog(below, fog, cfg) ==
    IF below
    THEN IF fog = NoFog
         THEN [ color |-> cfg.underwaterFogColor, near |-> cfg.fogCutoffStart,
                far |-> cfg.fogCutoffEnd ]
         ELSE [ fog EXCEPT !.color = cfg.underwaterFogColor,
                           !.near = cfg.fogCutoffStart, !.far = cfg.fogCutoffEnd ]
    ELSE NoFog

\* scene.background and scene.environment as animate sets them: under water
\* the fog colour and no environment; above water the loaded sky and its
\* environment map when both exist, else the neutral colour and no environment
SceneEnvironment(below, sky, env, fogColor) ==
    IF below
    THEN [ background |-> [ kind |-> "fog", tex |-> fogColor ], environment |-> 0 ]
    ELSE IF sky # 0 /\ env # 0
         THEN [ background |-> [ kind |-> "sky", tex |-> sky ], environment |-> env ]
         ELSE [ background |-> [ kind |-> "neutral", tex |-> 0 ], environment |-> 0 ]

(* animate: one execution of the frame callback, from the guards to the     *)
(* requestAnimationFrame at its end.  Its inputs are passed in, so that the *)
(* effect body, which calls animate() itself, can run it on the objects it  *)
(* has just created.                                                        *)

AnimateFrame(now, live, queue, rtA, rtB, sim, water, pending, fog) ==
    LET alive    == AgeOut(live, now)
        consumed == ConsumeTextureImpacts(config, queue)
        sim1     == IF Len(consumed) > 0
                    THEN [ sim EXCEPT !.uImpactCount = Len(consumed),
                                      !.uImpacts = TextureImpactData(consumed) ]
                    ELSE [ sim EXCEPT !.uImpactCount = 0 ]
        sim2     == [ sim1 EXCEPT !.tDiffuse = rtA ]
        swapped  == SwapBuffers(rtA, rtB)
        vimpacts == SliceImpacts(alive)
        water1   == [ water EXCEPT !.tRipple = swapped[1], !.uTime = now,
                                   !.uUseVertexImpacts = config.useVertexImpacts ]
        water2   == IF config.useVertexImpacts
                    THEN [ water1 EXCEPT !.uVertexImpactCount = Len(vimpacts),
                                         !.uVertexImpacts = VertexImpactData(vimpacts) ]
                    ELSE [ water1 EXCEPT !.uVertexImpactCount = 0 ]
        id       == RequestAnimationFrame(pending, frameIdRef)
    IN  /\ discreteImpactsRef' = alive
        /\ textureImpactsToProcessRef' = RemainingTextureImpacts(config, queue)
        \* renderer.setRenderTarget(B); renderer.render(simScene, simCamera)
        /\ simPass' = [ read |-> sim2.tDiffuse, write |-> rtB,
                        uniforms |-> sim2, impacts |-> consumed ]
        /\ renderTargetA' = swapped[1]
        /\ renderTargetB' = swapped[2]
        /\ simUniforms' = [ sim2 EXCEPT !.uMouseDown = FALSE ]
        /\ waterUniforms' = water2
        \* composer.render()
        /\ presented' = [ tRipple |-> water2.tRipple ]
        /\ frameOps' = << "ripple", "compose" >>
        /\ frameTime' = now
        \* camera and environment logic
        /\ isUnderwater' = cameraBelow
        /\ scene' = SceneEnvironment(cameraBelow, skyTextureRef, envMapRef,
                                     config.underwaterFogColor)
        /\ sceneFog' = SceneFog(cameraBelow, fog, config)
        /\ raysVisible' = cameraBelow
        /\ frameIdRef' = id
        /\ rafPending' = pending \cup { id }

\* faulty variant of the frame callback: it takes the early return of the guard
\* (request the next frame, render nothing)
AnimateSkipStep ==
    /\ \E id \in rafPending :
          LET next == RequestAnimationFrame(rafPending \ { id }, frameIdRef)
          IN  /\ frameIdRef' = next
              /\ rafPending' = (rafPending \ { id }) \cup { next }
    /\ frameOps' = << >>
    /\ frameTime' = time
    /\ UNCHANGED << loaderVars, frameEnvVars, simResolution, shader, appVars >>
    /\ UNCHANGED << mounted, mounts, containerRef, pointerListening, resizeListening,
                    rendererSize, time, config, discreteImpactsRef,
                    textureImpactsToProcessRef, spawned, renderTargetA, renderTargetB,
                    disposed, simUniforms, waterUniforms, isInteracting, simPass,
                    presented >>

\* the browser runs a requested frame callback
Animate ==
    /\ \E id \in rafPending :
          AnimateFrame(time, discreteImpactsRef, textureImpactsToProcessRef,
                       renderTargetA, renderTargetB, simUniforms, waterUniforms,
                       rafPending \ { id }, sceneFog)
    /\ UNCHANGED << loaderVars, simResolution, shader, appVars >>
    /\ UNCHANGED << mounted, mounts, containerRef, pointerListening, resizeListening,
                    rendererSize, time, config, spawned, disposed, isInteracting >>

----------------------------------------------------------------------------
(* The scene effect: body (mount) and cleanup *)

\* renderTargetA.current?.dispose(); renderTargetB.current?.dispose(); target.dispose()
DisposeOnCleanup(rtA, rtB, target) ==
    { << "grid", rtA >>, << "grid", rtB >>, << "target", target >> }

\* The effect body.  In production it runs once for a component; a development
\* build re-runs it on the same component (after its cleanup), which `remount`
\* allows.  It creates the clock (whose first reading, taken by the
\* animate() call at the end of the body, is 0), the renderer, the two ripple
\* buffers and the materials, registers the listeners and runs animate() once.
Mount(viewport, remount) ==
    /\ ~mounted
    /\ containerRef = "attached"
    /\ mounts = 0 \/ (remount /\ mounts < MaxMounts)
    /\ mounted' = TRUE
    /\ mounts' = mounts + 1
    /\ time' = 0
    /\ rendererSize' = viewport
    /\ AnimateFrame(0, discreteImpactsRef, textureImpactsToProcessRef,
                    NewRenderTarget(mounts, 1), NewRenderTarget(mounts, 2),
                    PhysicsUniforms(NewSimUniforms, config), NewWaterUniforms(config),
                    rafPending, NoFog)
    /\ pointerListening' = TRUE
    /\ resizeListening' = TRUE
    /\ simResolution' = simSize
    \* the new materials start with the placeholder sky and an empty normal map;
    \* the loading effects, which run after the body, request the assets
    /\ textures' = NewTextures
    /\ loads' = loads \cup { << "sky", skyboxUrl >>, << "normal", NormalMapUrl >> }
    /\ UNCHANGED << skyboxUrl, skyTextureRef, envMapRef, cameraBelow, shader, appVars >>
    /\ UNCHANGED << containerRef, config, spawned, disposed, isInteracting >>

\* The effect cleanup.  It runs either while the container is still attached
\* (the effect is re-run on the same component) or on unmount, when React has
\* already detached the container and set containerRef.current to null.
Cleanup(unmounting) ==
    /\ mounted
    /\ mounted' = FALSE
    /\ rafPending' = CancelAnimationFrame(rafPending, frameIdRef)
    /\ resizeListening' = FALSE
    /\ containerRef' = IF unmounting THEN "null" ELSE containerRef
    /\ pointerListening' = IF containerRef' = "attached" THEN FALSE ELSE pointerListening
    /\ disposed' = disposed \cup DisposeOnCleanup(renderTargetA, renderTargetB, mounts)
    /\ UNCHANGED << loaderVars, frameEnvVars, simResolution, shader, appVars >>
    /\ UNCHANGED << mounts, rendererSize, frameIdRef, time, config, discreteImpactsRef,
                    textureImpactsToProcessRef, spawned, renderTargetA, renderTargetB,
                    simUniforms, waterUniforms, isInteracting, simPass, presented,
                    frameOps, frameTime >>

----------------------------------------------------------------------------
(* Events *)

\* a pointer event reaches a listener of the container only while the listener
\* is registered and the container is in the document
PointerDelivered == pointerListening /\ containerRef = "attached"

\* discreteImpactsRef.current.push(i); textureImpactsToProcessRef.current.push(i)
PushImpact(i) ==
    /\ discreteImpactsRef' = Append(discreteImpactsRef, i)
    /\ textureImpactsToProcessRef' = Append(textureImpactsToProcessRef, i)
    /\ spawned' = Append(spawned, i)

ImpactLists == << discreteImpactsRef, textureImpactsToProcessRef, spawned >>

onPointerDown(e, cap) ==
    /\ PointerDelivered
    /\ Len(spawned) < cap
    /\ IF PrimaryGate(e) /\ e.hit
       THEN PushImpact(NewImpact(Len(spawned) + 1, e.target, time))
       ELSE UNCHANGED ImpactLists
    /\ UNCHANGED << loaderVars, frameEnvVars, simResolution, shader, appVars >>
    /\ UNCHANGED << mounted, mounts, containerRef, pointerListening, resizeListening,
                    rendererSize, rafPending, frameIdRef, time, config, renderTargetA,
                    renderTargetB, disposed, simUniforms, waterUniforms, isInteracting,
                    simPass, presented, frameOps, frameTime >>

PointerDownEvents(targets) ==
    [ isPrimary : BOOLEAN, pointerType : { "mouse", "touch" }, button : { 0, 2 },
      hit : BOOLEAN, target : targets ]

\* sceneController.current.addDiscreteImpact, set by the effect body and never unset
addDiscreteImpact(target, cap) ==
    /\ mounts > 0
    /\ Len(spawned) < cap
    /\ PushImpact(NewImpact(Len(spawned) + 1, target, time))
    /\ UNCHANGED << loaderVars, frameEnvVars, simResolution, shader, appVars >>
    /\ UNCHANGED << mounted, mounts, containerRef, pointerListening, resizeListening,
                    rendererSize, rafPending, frameIdRef, time, config, renderTargetA,
                    renderTargetB, disposed, simUniforms, waterUniforms, isInteracting,
                    simPass, presented, frameOps, frameTime >>

\* faulty variant: a pointer-move that skips the mouseHoverEnabled test
onPointerMoveUngated(hit, target) ==
    /\ PointerDelivered
    /\ IF hit
       THEN /\ simUniforms' = [ simUniforms EXCEPT
                                  !.uMouse = << ToU(target[1]), ToV(target[2]) >>,
                                  !.uMouseDown = TRUE ]
            /\ isInteracting' = TRUE
       ELSE UNCHANGED << simUniforms, isInteracting >>
    /\ UNCHANGED << loaderVars, frameEnvVars, simResolution, shader, appVars >>
    /\ UNCHANGED << mounted, mounts, containerRef, pointerListening, resizeListening,
                    rendererSize, rafPending, frameIdRef, time, config, discreteImpactsRef,
                    textureImpactsToProcessRef, spawned, renderTargetA, renderTargetB,
                    disposed, waterUniforms, simPass, presented, frameOps, frameTime >>

\* onPointerMove, with updateMouse
onPointerMove(hit, target) ==
    /\ PointerDelivered
    /\ IF config.mouseHoverEnabled /\ hit
       THEN /\ simUniforms' = [ simUniforms EXCEPT
                                  !.uMouse = << ToU(target[1]), ToV(target[2]) >>,
                                  !.uMouseDown = TRUE ]
            /\ isInteracting' = TRUE
       ELSE UNCHANGED << simUniforms, isInteracting >>
    /\ UNCHANGED << loaderVars, frameEnvVars, simResolution, shader, appVars >>
    /\ UNCHANGED << mounted, mounts, containerRef, pointerListening, resizeListening,
                    rendererSize, rafPending, frameIdRef, time, config, discreteImpactsRef,
                    textureImpactsToProcessRef, spawned, renderTargetA, renderTargetB,
                    disposed, waterUniforms, simPass, presented, frameOps, frameTime >>

\* faulty variant: a pointer-leave that forgets to move uMouse off the grid
onPointerLeaveKeepsTarget ==
    /\ PointerDelivered
    /\ isInteracting' = FALSE
    /\ UNCHANGED simUniforms
    /\ UNCHANGED << loaderVars, frameEnvVars, simResolution, shader, appVars >>
    /\ UNCHANGED << mounted, mounts, containerRef, pointerListening, resizeListening,
                    rendererSize, rafPending, frameIdRef, time, config, discreteImpactsRef,
                    textureImpactsToProcessRef, spawned, renderTargetA, renderTargetB,
                    disposed, waterUniforms, simPass, presented, frameOps, frameTime >>

\* faulty variant: a pointer-leave that reaches into the uniforms of a pass in
\* progress
onPointerLeaveMidStep ==
    /\ PointerDelivered
    /\ isInteracting' = FALSE
    /\ simUniforms' = [ simUniforms EXCEPT !.uMouse = OffScreen ]
    /\ simPass' = [ simPass EXCEPT !.uniforms.uMouse = OffScreen ]
    /\ UNCHANGED << loaderVars, frameEnvVars, simResolution, shader, appVars >>
    /\ UNCHANGED << mounted, mounts, containerRef, pointerListening, resizeListening,
                    rendererSize, rafPending, frameIdRef, time, config, discreteImpactsRef,
                    textureImpactsToProcessRef, spawned, renderTargetA, renderTargetB,
                    disposed, waterUniforms, presented, frameOps, frameTime >>

onPointerLeave ==
    /\ PointerDelivered
    /\ isInteracting' = FALSE
    /\ simUniforms' = [ simUniforms EXCEPT !.uMouse = OffScreen ]
    /\ UNCHANGED << loaderVars, frameEnvVars, simResolution, shader, appVars >>
    /\ UNCHANGED << mounted, mounts, containerRef, pointerListening, resizeListening,
                    rendererSize, rafPending, frameIdRef, time, config, discreteImpactsRef,
                    textureImpactsToProcessRef, spawned, renderTargetA, renderTargetB,
                    disposed, waterUniforms, simPass, presented, frameOps, frameTime >>

\* faulty variant: a resize that also gives the ripple buffers the viewport's size
handleResizeAll(viewport) ==
    /\ resizeListening
    /\ rendererSize' = IF containerRef = "attached" THEN viewport ELSE rendererSize
    /\ simResolution' = IF containerRef = "attached" THEN viewport ELSE simResolution
    /\ UNCHANGED << loaderVars, frameEnvVars, shader, appVars >>
    /\ UNCHANGED << mounted, mounts, containerRef, pointerListening, resizeListening,
                    rafPending, frameIdRef, time, config, discreteImpactsRef,
                    textureImpactsToProcessRef, spawned, renderTargetA, renderTargetB,
                    disposed, simUniforms, waterUniforms, isInteracting, simPass,
                    presented, frameOps, frameTime >>

\* setSize of the renderer and the composer, and the camera's aspect
handleResize(viewport) ==
    /\ resizeListening
    /\ rendererSize' = IF containerRef = "attached" THEN viewport ELSE rendererSize
    /\ UNCHANGED << loaderVars, frameEnvVars, simResolution, shader, appVars >>
    /\ UNCHANGED << mounted, mounts, containerRef, pointerListening, resizeListening,
                    rafPending, frameIdRef, time, config, discreteImpactsRef,
                    textureImpactsToProcessRef, spawned, renderTargetA, renderTargetB,
                    disposed, simUniforms, waterUniforms, isInteracting, simPass,
                    presented, frameOps, frameTime >>

\* a toggle of the control panel: handleWaterConfigChange, then the effects that
\* copy the new configuration into configRef and into the uniforms
ConfigChange(key) ==
    /\ config' = [ config EXCEPT ![key] = ~@ ]
    /\ simUniforms' = IF mounts > 0
                      THEN PhysicsUniforms(simUniforms, config')
                      ELSE simUniforms
    /\ UNCHANGED << loaderVars, frameEnvVars, simResolution, shader, appVars >>
    /\ UNCHANGED << mounted, mounts, containerRef, pointerListening, resizeListening,
                    rendererSize, rafPending, frameIdRef, time, discreteImpactsRef,
                    textureImpactsToProcessRef, spawned, renderTargetA, renderTargetB,
                    disposed, waterUniforms, isInteracting, simPass, presented,
                    frameOps, frameTime >>

\* the underwater fog colour is changed in the control panel:
\* handleWaterConfigChange, then the effects as in ConfigChange
FogColorChange(c) ==
    /\ mounted
    /\ c # config.underwaterFogColor
    /\ config' = [ config EXCEPT !.underwaterFogColor = c ]
    /\ simUniforms' = PhysicsUniforms(simUniforms, config')
    /\ UNCHANGED << loaderVars, frameEnvVars, simResolution, shader, appVars >>
    /\ UNCHANGED << mounted, mounts, containerRef, pointerListening, resizeListening,
                    rendererSize, rafPending, frameIdRef, time, discreteImpactsRef,
                    textureImpactsToProcessRef, spawned, renderTargetA, renderTargetB,
                    disposed, waterUniforms, isInteracting, simPass, presented,
                    frameOps, frameTime >>

\* the values the panel's Damping, Strength, Radius and Viscosity ranges are moved to
PhysicsValues ==
    [ rippleDamping |-> { 900, 950 }, rippleStrength |-> { 10, 50 },
      rippleRadius |-> { rippleRadius, (10 * UVOne) \div 100 },
      rippleViscosity |-> { 0, 10 } ]

\* a ripple physics range of the control panel is moved:
\* handleWaterConfigChange, then the config effect
PhysicsChange(key, value) ==
    /\ mounted
    /\ value # config[key]
    /\ config' = [ config EXCEPT ![key] = value ]
    /\ simUniforms' = PhysicsUniforms(simUniforms, config')
    /\ UNCHANGED << loaderVars, frameEnvVars, simResolution, shader, appVars >>
    /\ UNCHANGED << mounted, mounts, containerRef, pointerListening, resizeListening,
                    rendererSize, rafPending, frameIdRef, time, discreteImpactsRef,
                    textureImpactsToProcessRef, spawned, renderTargetA, renderTargetB,
                    disposed, waterUniforms, isInteracting, simPass, presented,
                    frameOps, frameTime >>

\* the clock advances
Tick(cap) ==
    /\ mounts > 0
    /\ time < cap
    /\ time' = time + 1
    /\ UNCHANGED << loaderVars, frameEnvVars, simResolution, shader, appVars >>
    /\ UNCHANGED << mounted, mounts, containerRef, pointerListening, resizeListening,
                    rendererSize, rafPending, frameIdRef, config, discreteImpactsRef,
                    textureImpactsToProcessRef, spawned, renderTargetA, renderTargetB,
                    disposed, simUniforms, waterUniforms, isInteracting, simPass,
                    presented, frameOps, frameTime >>

----------------------------------------------------------------------------
(* Asset loads and the camera *)

\* the skybox is changed in the control panel: the environment loading effect
\* runs again and asks the loader for the new url
SkyboxChange(url) ==
    /\ mounted
    /\ url # skyboxUrl
    /\ skyboxUrl' = url
    /\ loads' = loads \cup { << "sky", url >> }
    /\ UNCHANGED << skyTextureRef, envMapRef, textures, cameraBelow >>
    /\ UNCHANGED << frameEnvVars, simResolution, shader, appVars >>
    /\ UNCHANGED << mounted, mounts, containerRef, pointerListening, resizeListening,
                    rendererSize, rafPending, frameIdRef, time, config, discreteImpactsRef,
                    textureImpactsToProcessRef, spawned, renderTargetA, renderTargetB,
                    disposed, simUniforms, waterUniforms, isInteracting, simPass,
                    presented, frameOps, frameTime >>

\* the callback of loader.load(config.skyboxUrl, ...): the environment map and
\* the sky texture are stored, every material's tSky is set to the texture, and
\* the colours are synced from a palette sampled at random from the texture
\* (updateWaterConfigFromPalette sets underwaterFogColor), after which the
\* config effect runs
SkyLoaded(url) ==
    /\ << "sky", url >> \in loads
    /\ loads' = loads \ { << "sky", url >> }
    /\ envMapRef' = url
    /\ skyTextureRef' = url
    /\ textures' = [ textures EXCEPT !.tSky = url ]
    /\ \E colorDeep \in FogColors :
          config' = [ config EXCEPT !.underwaterFogColor = colorDeep ]
    /\ simUniforms' = IF mounts > 0
                      THEN PhysicsUniforms(simUniforms, config')
                      ELSE simUniforms
    /\ UNCHANGED << skyboxUrl, cameraBelow >>
    /\ UNCHANGED << frameEnvVars, simResolution, shader, appVars >>
    /\ UNCHANGED << mounted, mounts, containerRef, pointerListening, resizeListening,
                    rendererSize, rafPending, frameIdRef, time, discreteImpactsRef,
                    textureImpactsToProcessRef, spawned, renderTargetA, renderTargetB,
                    disposed, waterUniforms, isInteracting, simPass,
                    presented, frameOps, frameTime >>

\* the callback of textureLoader.load(config.normalMapUrl, ...)
NormalMapLoaded ==
    /\ << "normal", NormalMapUrl >> \in loads
    /\ loads' = loads \ { << "normal", NormalMapUrl >> }
    /\ textures' = [ textures EXCEPT !.tNormalMap = NormalMapUrl ]
    /\ UNCHANGED << skyboxUrl, skyTextureRef, envMapRef, cameraBelow >>
    /\ UNCHANGED << frameEnvVars, simResolution, shader, appVars >>
    /\ UNCHANGED << mounted, mounts, containerRef, pointerListening, resizeListening,
                    rendererSize, rafPending, frameIdRef, time, config, discreteImpactsRef,
                    textureImpactsToProcessRef, spawned, renderTargetA, renderTargetB,
                    disposed, simUniforms, waterUniforms, isInteracting, simPass,
                    presented, frameOps, frameTime >>

\* the orbit controls move the camera across the water surface
MoveCamera(below) ==
    /\ mounted
    /\ below # cameraBelow
    /\ cameraBelow' = below
    /\ UNCHANGED << skyboxUrl, loads, skyTextureRef, envMapRef, textures >>
    /\ UNCHANGED << frameEnvVars, simResolution, shader, appVars >>
    /\ UNCHANGED << mounted, mounts, containerRef, pointerListening, resizeListening,
                    rendererSize, rafPending, frameIdRef, time, config, discreteImpactsRef,
                    textureImpactsToProcessRef, spawned, renderTargetA, renderTargetB,
                    disposed, simUniforms, waterUniforms, isInteracting, simPass,
                    presented, frameOps, frameTime >>

----------------------------------------------------------------------------

(* The next-state relation, for given bounds and input sets *)

Handlers(b) ==
    \/ \E v \in b.viewports : Mount(v, b.remount)
    \/ \E u \in BOOLEAN : Cleanup(u)
    \/ Animate
    \/ \E e \in PointerDownEvents(b.targets) : onPointerDown(e, b.spawns)
    \/ \E t \in b.randoms : addDiscreteImpact(t, b.spawns)
    \/ \E h \in BOOLEAN, t \in b.targets : onPointerMove(h, t)
    \/ onPointerLeave
    \/ \E v \in b.resizes : handleResize(v)
    \/ \E k \in b.keys : ConfigChange(k)

NextFor(b) == Handlers(b) \/ Tick(b.time)

ImpactToggles == { "useTextureImpacts", "useVertexImpacts" }

\* the frame loop and the life cycle of the scene, re-runs of the effect included
Next ==
    NextFor([ time |-> MaxTime, spawns |-> MaxSpawns, remount |-> TRUE,
              viewports |-> { 1 }, resizes |-> Viewports,
              keys |-> { "mouseHoverEnabled" },
              targets |-> { RandomTarget }, randoms |-> { RandomTarget } ])

Spec == Init /\ [][Next]_vars

\* the brush and the impacts between the frames of one scene
NextBrush ==
    NextFor([ time |-> MaxTime, spawns |-> MaxSpawns, remount |-> FALSE,
              viewports |-> { 1 }, resizes |-> { 1 },
              keys |-> { "mouseHoverEnabled", "useTextureImpacts" },
              targets |-> { PointerTarget, RandomTarget },
              randoms |-> { RandomTarget } ])

SpecBrush == Init /\ [][NextBrush]_vars

\* impacts over their whole lifetime, with the two impact toggles
NextImpacts ==
    NextFor([ time |-> ImpactTime, spawns |-> MaxSpawns, remount |-> FALSE,
              viewports |-> { 1 }, resizes |-> { 1 }, keys |-> ImpactToggles,
              targets |-> { PointerTarget, RandomTarget },
              randoms |-> { RandomTarget } ])

SpecImpacts == Init /\ [][NextImpacts]_vars

\* more spawns than the shader arrays hold, all within one second of the clock
NextBurst ==
   Handlers([ spawns |-> BurstSpawns, remount |-> FALSE,
              viewports |-> { 1 }, resizes |-> { 1 }, keys |-> ImpactToggles,
              targets |-> { RandomTarget }, randoms |-> { RandomTarget } ])

SpecBurst == Init /\ [][NextBurst]_vars

\* frames, impacts and the clock of one scene while assets load and the camera moves
NextAssets ==
    \/ Mount(1, FALSE)
    \/ Animate
    \/ \E t \in { RandomTarget } : addDiscreteImpact(t, MaxSpawns)
    \/ Tick(MaxTime)
    \/ \E u \in Skyboxes : SkyboxChange(u)
    \/ \E u \in Skyboxes : SkyLoaded(u)
    \/ NormalMapLoaded
    \/ \E b \in BOOLEAN : MoveCamera(b)
    \/ \E c \in FogColors : FogColorChange(c)

SpecAssets == Init /\ [][NextAssets]_vars

\* frames of one scene while the ripple physics ranges are moved and the
\* pointer paints
NextPhysics ==
    \/ Mount(1, FALSE)
    \/ Animate
    \/ \E key \in DOMAIN PhysicsValues : \E value \in PhysicsValues[key] :
          PhysicsChange(key, value)
    \/ ConfigChange("mouseHoverEnabled")
    \/ onPointerMove(TRUE, PointerTarget)

SpecPhysics == Init /\ [][NextPhysics]_vars

----------------------------------------------------------------------------
(* The ripple shader's wave equation on a small grid, in exact arithmetic *)

\* side of the simulated grid (the program's is simSize)
GridN == 3
\* simulation steps taken from each drawn grid state
MaxRippleSteps == 2
\* uDamping is DampingNum / DampingDen
DampingDen == 4
Dampings == 1 .. (DampingDen - 1)

Texels == (0 .. GridN - 1) \X (0 .. GridN - 1)

\* wrapS, wrapT = ClampToEdgeWrapping
ClampToEdge(i) == IF i < 0 THEN 0 ELSE IF i > GridN - 1 THEN GridN - 1 ELSE i

\* texture2D(tDiffuse, vUv + offset) with the nearest filter
Texture2D(grid, c, dx, dy) == grid[<< ClampToEdge(c[1] + dx), ClampToEdge(c[2] + dy) >>]

\* the sum of the four neighbour heights (avg is a quarter of it)
NeighbourSum(grid, c) ==
    Texture2D(grid, c, -1, 0).height + Texture2D(grid, c, 1, 0).height
        + Texture2D(grid, c, 0, -1).height + Texture2D(grid, c, 0, 1).height

\* vel += (avg - height) * 2.0; vel *= uDamping, with height and vel in units of
\* 1/scale and the result in units of 1/(2 * DampingDen * scale)
DampedVelocity(grid, c, k) ==
    k * (2 * grid[c].vel + NeighbourSum(grid, c) - 4 * grid[c].height)

\* main() with uMouseDown false and uImpactCount 0: gl_FragColor = (height, vel)
RippleFragment(grid, c, k) ==
    [ height |-> 2 * DampingDen * grid[c].height + DampedVelocity(grid, c, k),
      vel    |-> DampedVelocity(grid, c, k) ]

\* one simulation pass over the whole target
RippleStep(sh) ==
    [ sh EXCEPT !.grid  = [ c \in Texels |-> RippleFragment(sh.grid, c, sh.damping) ],
                !.scale = 2 * DampingDen * sh.scale,
                !.steps = sh.steps + 1 ]

\* grids at rest in which every texel is level or pushed down by one unit
RippleInput(k, hs) ==
    [ fn |-> "ripple", damping |-> k, scale |-> 1, steps |-> 0,
      grid |-> [ c \in Texels |-> [ height |-> hs[c], vel |-> 0 ] ] ]

RECURSIVE SumOver(_, _)
SumOver(f, S) ==
    IF S = {} THEN 0
    ELSE LET c == CHOOSE x \in S : TRUE IN f[c] + SumOver(f, S \ { c })

\* sum over all texels of height^2 + vel^2, in units of 1/scale^2
Energy(grid) ==
    SumOver([ c \in Texels |-> grid[c].height * grid[c].height + grid[c].vel * grid[c].vel ],
            Texels)

RippleInit ==
    /\ SceneInit
    /\ AppInit
    /\ \E k \in Dampings, hs \in [ Texels -> { 0, -1 } ] : shader = RippleInput(k, hs)

RunRipple ==
    /\ shader.fn = "ripple"
    /\ shader.steps < MaxRippleSteps
    /\ shader' = RippleStep(shader)
    /\ UNCHANGED << sceneVars, appVars >>

SpecRipple == RippleInit /\ [][RunRipple]_vars

----------------------------------------------------------------------------
(* The water vertex shader's layered wave height, in exact rational arithmetic *)

\* a float as the fraction n / d with d > 0
R(n, d) == [ n |-> n, d |-> d ]
RAdd(a, b) == R(a.n * b.d + b.n * a.d, a.d * b.d)
RSub(a, b) == R(a.n * b.d - b.n * a.d, a.d * b.d)
RMul(a, b) == R(a.n * b.n, a.d * b.d)
REq(a, b) == a.n * b.d = b.n * a.d
RLe(a, b) == a.n * b.d <= b.n * a.d
RLt(a, b) == a.n * b.d < b.n * a.d
RZero == R(0, 1)
ROne == R(1, 1)
RHalf == R(1, 2)

\* noise values are multiples of 1 / NoiseDen
NoiseDen == 2
\* the values of simplex_fbm, perlin_fbm and voronoi * 2 - 1 at a position and time
NoiseSamples == { R(n, NoiseDen) : n \in (-NoiseDen) .. NoiseDen }
\* uWaveHeight * 10.0
Amplitudes == { 1, 2 }
\* uNoiseBlendingModeAB, uNoiseBlendingModeBC: 0 Add, 1 Multiply, 2 Mix
BlendModes == { 0, 1, 2 }
\* uNoiseBlendAB, uNoiseBlendBC
MixAmounts == { RZero, RHalf }
Layers == [ noise : NoiseSamples, amplitude : Amplitudes ]

\* getProceduralNoiseHeight: the selected noise at the moved position, times height
getProceduralNoiseHeight(layer) == RMul(layer.noise, R(layer.amplitude, 1))

\* GLSL mix(x, y, a) = x * (1 - a) + y * a
mix(x, y, a) == RAdd(RMul(x, RSub(ROne, a)), RMul(y, a))

\* faulty variant: a multiply blend that does not rescale its operands to [0,1]
blend_heightsUnscaled(h1, h2, mode, mix_amount) ==
    IF mode = 0 THEN RAdd(h1, h2)
    ELSE IF mode = 1 THEN RSub(RMul(RMul(h1, h2), R(2, 1)), ROne)
    ELSE IF mode = 2 THEN mix(h1, h2, mix_amount)
    ELSE h1

blend_heights(h1, h2, mode, mix_amount) ==
    IF mode = 0 THEN RAdd(h1, h2)
    ELSE IF mode = 1
         THEN RSub(RMul(RMul(RAdd(RMul(h1, RHalf), RHalf), RAdd(RMul(h2, RHalf), RHalf)),
                        R(2, 1)),
                   ROne)
    ELSE IF mode = 2 THEN mix(h1, h2, mix_amount)
    ELSE h1

\* faulty variant: layer C is blended in even when layer B is disabled
getBlendedWaveHeightSkipB(u) ==
    LET heightA == getProceduralNoiseHeight(u.layerA)
        heightB == getProceduralNoiseHeight(u.layerB)
        heightAB == IF u.uUseNoiseLayerB
                    THEN blend_heights(heightA, heightB, u.uNoiseBlendingModeAB, u.uNoiseBlendAB)
                    ELSE heightA
        heightC == getProceduralNoiseHeight(u.layerC)
    IN  IF ~u.uUseNoiseLayerC THEN heightAB
        ELSE blend_heights(heightAB, heightC, u.uNoiseBlendingModeBC, u.uNoiseBlendBC)

getBlendedWaveHeight(u) ==
    LET heightA == getProceduralNoiseHeight(u.layerA)
        heightB == getProceduralNoiseHeight(u.layerB)
        heightAB == blend_heights(heightA, heightB, u.uNoiseBlendingModeAB, u.uNoiseBlendAB)
        heightC == getProceduralNoiseHeight(u.layerC)
    IN  IF ~u.uUseNoiseLayerB THEN heightA
        ELSE IF ~u.uUseNoiseLayerC THEN heightAB
        ELSE blend_heights(heightAB, heightC, u.uNoiseBlendingModeBC, u.uNoiseBlendBC)

\* the uniforms and noise values getBlendedWaveHeight reads
WaveInput(l, use, modes, mixes) ==
    [ fn |-> "waves", done |-> FALSE, out |-> RZero,
      layerA |-> l[1], layerB |-> l[2], layerC |-> l[3],
      uUseNoiseLayerB |-> use[1], uUseNoiseLayerC |-> use[2],
      uNoiseBlendingModeAB |-> modes[1], uNoiseBlendAB |-> mixes[1],
      uNoiseBlendingModeBC |-> modes[2], uNoiseBlendBC |-> mixes[2] ]

WavesInit ==
    /\ SceneInit
    /\ AppInit
    /\ \E l \in Layers \X Layers \X Layers, use \in BOOLEAN \X BOOLEAN,
          modes \in BlendModes \X BlendModes, mixes \in MixAmounts \X MixAmounts :
          shader = WaveInput(l, use, modes, mixes)

RunWaves ==
    /\ shader.fn = "waves"
    /\ ~shader.done
    /\ shader' = [ shader EXCEPT !.done = TRUE, !.out = getBlendedWaveHeight(shader) ]
    /\ UNCHANGED << sceneVars, appVars >>

SpecWaves == WavesInit /\ [][RunWaves]_vars

\* operands of blend_heights: multiples of 1 / NoiseDen in [-2, 2]
BlendOperands == { R(n, NoiseDen) : n \in (-2 * NoiseDen) .. (2 * NoiseDen) }

BlendInput(a, b, m, x) ==
    [ fn |-> "blend", done |-> FALSE, out |-> RZero,
      h1 |-> a, h2 |-> b, mode |-> m, mix_amount |-> x ]

BlendInit ==
    /\ SceneInit
    /\ AppInit
    /\ \E a \in BlendOperands, b \in BlendOperands, m \in BlendModes \cup { 3 },
          x \in MixAmounts :
          shader = BlendInput(a, b, m, x)

RunBlend ==
    /\ shader.fn = "blend"
    /\ ~shader.done
    /\ shader' = [ shader EXCEPT
                     !.done = TRUE,
                     !.out = blend_heights(shader.h1, shader.h2, shader.mode,
                                           shader.mix_amount) ]
    /\ UNCHANGED << sceneVars, appVars >>

SpecBlend == BlendInit /\ [][RunBlend]_vars

----------------------------------------------------------------------------
(* The colour ramp: the config effect's uniforms and the shader's lookup *)

\* ramp positions and t are multiples of 1 / RampDen in [0,1]
RampDen == 4
RampPositions == 0 .. RampDen
\* one colour channel of the five stops (mix works on each channel alike)
Palettes == { << RZero, ROne, RZero, ROne, RZero >>,
              << R(1, 4), RHalf, R(3, 4), ROne, RZero >> }

\* a waterConfig's ramp fields
RampConfig(pos, use, colors) ==
    [ colorRampStopColor |-> colors, colorRampStopPosition |-> pos,
      useColorRampStop3 |-> use[1], useColorRampStop4 |-> use[2],
      useColorRampStop5 |-> use[3] ]

\* the stops a configuration enables
ActiveStops(cfg) ==
    { 1, 2 } \cup (IF cfg.useColorRampStop3 THEN { 3 } ELSE {})
             \cup (IF cfg.useColorRampStop4 THEN { 4 } ELSE {})
             \cup (IF cfg.useColorRampStop5 THEN { 5 } ELSE {})

\* the config effect: colours and positions in stop order, stopCount = 2 plus
\* one for every enabled optional stop
RampUniforms(cfg) ==
    [ uColorRamp |-> cfg.colorRampStopColor,
      uColorRampPositions |-> cfg.colorRampStopPosition,
      uColorRampStopCount |-> 2 + (IF cfg.useColorRampStop3 THEN 1 ELSE 0)
                               + (IF cfg.useColorRampStop4 THEN 1 ELSE 0)
                               + (IF cfg.useColorRampStop5 THEN 1 ELSE 0) ]

\* mix(uColorRamp[i], uColorRamp[i+1], (t - pos1) / (pos2 - pos1)), pos1 < pos2
RampMix(c1, c2, t, pos1, pos2) == mix(c1, c2, R(t - pos1, pos2 - pos1))

\* faulty variant of the loop: the break on the active stop count is missing
RECURSIVE RampLoopPastCount(_, _, _)
RampLoopPastCount(u, t, i) ==
    IF i >= 4 THEN u.uColorRamp[u.uColorRampStopCount]
    ELSE LET pos1 == u.uColorRampPositions[i + 1]
             pos2 == u.uColorRampPositions[i + 2]
         IN  IF t > pos1 /\ t <= pos2
             THEN RampMix(u.uColorRamp[i + 1], u.uColorRamp[i + 2], t, pos1, pos2)
             ELSE RampLoopPastCount(u, t, i + 1)

getColorFromRampPastCount(u, t) ==
    IF t <= u.uColorRampPositions[1] THEN u.uColorRamp[1]
    ELSE RampLoopPastCount(u, t, 0)

\* the for loop of getColorFromRamp from index i (arrays are 0-based in the
\* shader, sequences 1-based here)
RECURSIVE RampLoop(_, _, _)
RampLoop(u, t, i) ==
    IF i >= 4 \/ i + 1 >= u.uColorRampStopCount
    THEN u.uColorRamp[u.uColorRampStopCount]
    ELSE LET pos1 == u.uColorRampPositions[i + 1]
             pos2 == u.uColorRampPositions[i + 2]
         IN  IF t > pos1 /\ t <= pos2
             THEN RampMix(u.uColorRamp[i + 1], u.uColorRamp[i + 2], t, pos1, pos2)
             ELSE RampLoop(u, t, i + 1)

getColorFromRamp(u, t) ==
    IF t <= u.uColorRampPositions[1] THEN u.uColorRamp[1]
    ELSE RampLoop(u, t, 0)

RampInput(cfg, t) ==
    [ fn |-> "ramp", done |-> FALSE, out |-> RZero, config |-> cfg,
      uniforms |-> RampUniforms(cfg), t |-> t ]

RampInit ==
    /\ SceneInit
    /\ AppInit
    /\ \E pos \in [ 1 .. 5 -> RampPositions ], use \in BOOLEAN \X BOOLEAN \X BOOLEAN,
          colors \in Palettes, t \in RampPositions :
          shader = RampInput(RampConfig(pos, use, colors), t)

RunRamp ==
    /\ shader.fn = "ramp"
    /\ ~shader.done
    /\ shader' = [ shader EXCEPT !.done = TRUE,
                                 !.out = getColorFromRamp(shader.uniforms, shader.t) ]
    /\ UNCHANGED << sceneVars, appVars >>

SpecRamp == RampInit /\ [][RunRamp]_vars

----------------------------------------------------------------------------
(* The ramp fields of the configuration under changes from the control panel *)

\* the panel's range inputs give positions as v / 100
Percent == 100
\* positions offered to a stop, in hundredths
PanelPositions == { 0, 40, 75, 80, Percent }

\* initial waterConfig: stop 3 enabled, stops at 1.0, 0.4, 0.8, 0.75 and 1.0, the
\* blue channel of the stop colours
InitialRampConfig ==
    RampConfig(<< Percent, 40, 80, 75, Percent >>, << TRUE, FALSE, FALSE >>,
               << R(47, 255), R(97, 255), R(255, 255), RZero, RZero >>)

RampConfigInit ==
    /\ SceneInit
    /\ AppInit
    /\ shader = [ fn |-> "rampconfig", config |-> InitialRampConfig,
                  uniforms |-> RampUniforms(InitialRampConfig) ]

\* "Use Stop k" is toggled and the config effect sets the ramp uniforms
ToggleRampStop(k) ==
    /\ shader.fn = "rampconfig"
    /\ LET cfg == IF k = 3 THEN [ shader.config EXCEPT !.useColorRampStop3 = ~@ ]
                  ELSE IF k = 4 THEN [ shader.config EXCEPT !.useColorRampStop4 = ~@ ]
                  ELSE [ shader.config EXCEPT !.useColorRampStop5 = ~@ ]
       IN  shader' = [ shader EXCEPT !.config = cfg, !.uniforms = RampUniforms(cfg) ]
    /\ UNCHANGED << sceneVars, appVars >>

\* the position range of a shown stop is moved and the config effect runs
SetRampStopPosition(k, p) ==
    /\ shader.fn = "rampconfig"
    /\ k \in ActiveStops(shader.config)
    /\ shader.config.colorRampStopPosition[k] # p
    /\ LET cfg == [ shader.config EXCEPT !.colorRampStopPosition[k] = p ]
       IN  shader' = [ shader EXCEPT !.config = cfg, !.uniforms = RampUniforms(cfg) ]
    /\ UNCHANGED << sceneVars, appVars >>

NextRampConfig ==
    \/ \E k \in 3 .. 5 : ToggleRampStop(k)
    \/ \E k \in 1 .. 5, p \in PanelPositions : SetRampStopPosition(k, p)

SpecRampConfig == RampConfigInit /\ [][NextRampConfig]_vars

----------------------------------------------------------------------------
(* The two ripple integrators, with brush and impacts, in exact rational *)
(* arithmetic on texel coordinates                                       *)

RECURSIVE GCD(_, _)
GCD(a, b) == IF b = 0 THEN a ELSE GCD(b, a % b)

\* a fraction in lowest terms
Norm(x) ==
    LET g == GCD(Abs(x.n), x.d) IN IF g = 0 THEN x ELSE R(x.n \div g, x.d \div g)

QAdd(a, b) == Norm(RAdd(a, b))
QSub(a, b) == Norm(RSub(a, b))
QMul(a, b) == Norm(RMul(a, b))

\* distance(vUv, p) in texels, for the offsets whose length is a whole number
Distance(c, p) ==
    LET d2 == (c[1] - p[1]) * (c[1] - p[1]) + (c[2] - p[2]) * (c[2] - p[2])
    IN  R(CHOOSE r \in 0 .. d2 : r * r = d2, 1)

\* dist < uRadius, decided on the squares
WithinRadius(c, p, radius) ==
    ((c[1] - p[1]) * (c[1] - p[1]) + (c[2] - p[2]) * (c[2] - p[2])) * radius.d * radius.d
        < radius.n * radius.n

\* GLSL smoothstep(0.0, edge1, x): t = clamp(x / edge1, 0, 1); t * t * (3 - 2 t)
Smoothstep(edge1, x) ==
    LET q == Norm(R(x.n * edge1.d, x.d * edge1.n))
        t == IF RLe(q, RZero) THEN RZero ELSE IF RLe(ROne, q) THEN ROne ELSE q
    IN  QMul(QMul(t, t), QSub(R(3, 1), QMul(R(2, 1), t)))

\* uStrength * (1.0 - smoothstep(0.0, uRadius, dist)) inside the brush, else 0
BrushAmount(u, c) ==
    IF u.uMouseDown /\ WithinRadius(c, u.uMouse, u.uRadius)
    THEN QMul(u.uStrength, QSub(ROne, Smoothstep(u.uRadius, Distance(c, u.uMouse))))
    ELSE RZero

\* impactForce after the loop over the first uImpactCount impacts, from index i
RECURSIVE ImpactForce(_, _, _)
ImpactForce(u, c, i) ==
    IF i > MAX_IMPACTS \/ i > u.uImpactCount THEN RZero
    ELSE LET impact == u.uImpacts[i]
             rest == ImpactForce(u, c, i + 1)
         IN  IF WithinRadius(c, impact.xy, u.uRadius)
             THEN QSub(rest, QMul(impact.z,
                                  QSub(ROne, Smoothstep(u.uRadius, Distance(c, impact.xy)))))
             ELSE rest

\* the sum of the four neighbours' field (r = height, g = vel)
NeighbourField(grid, c, field) ==
    QAdd(QAdd(Texture2D(grid, c, -1, 0)[field], Texture2D(grid, c, 1, 0)[field]),
         QAdd(Texture2D(grid, c, 0, -1)[field], Texture2D(grid, c, 0, 1)[field]))

\* main() of the legacy shader
LegacyFragment(u, c) ==
    LET height == u.tDiffuse[c].height
        avg == QMul(NeighbourField(u.tDiffuse, c, "height"), R(1, 4))
        vel1 == QAdd(u.tDiffuse[c].vel, QMul(QSub(avg, height), R(2, 1)))
        vel2 == QMul(vel1, u.uDamping)
        h1 == QAdd(height, vel2)
        h2 == QSub(h1, BrushAmount(u, c))
    IN  [ height |-> QAdd(h2, ImpactForce(u, c, 1)), vel |-> vel2 ]

\* faulty variant of the viscous shader: the spring force is a quarter of the Laplacian
ViscousFragmentWeakSpring(u, c) ==
    LET height == u.tDiffuse[c].height
        laplacian == QSub(NeighbourField(u.tDiffuse, c, "height"), QMul(R(4, 1), height))
        vel1 == QAdd(u.tDiffuse[c].vel, QMul(laplacian, R(1, 4)))
        vel_laplacian == QSub(NeighbourField(u.tDiffuse, c, "vel"), QMul(R(4, 1), vel1))
        vel2 == QAdd(vel1, QMul(vel_laplacian, u.uViscosity))
        vel3 == QMul(vel2, u.uDamping)
        h1 == QAdd(height, vel3)
        h2 == QSub(h1, BrushAmount(u, c))
    IN  [ height |-> QAdd(h2, ImpactForce(u, c, 1)), vel |-> vel3 ]

\* main() of the viscous shader
ViscousFragment(u, c) ==
    LET height == u.tDiffuse[c].height
        laplacian == QSub(NeighbourField(u.tDiffuse, c, "height"), QMul(R(4, 1), height))
        vel1 == QAdd(u.tDiffuse[c].vel, QMul(laplacian, RHalf))
        vel_laplacian == QSub(NeighbourField(u.tDiffuse, c, "vel"), QMul(R(4, 1), vel1))
        vel2 == QAdd(vel1, QMul(vel_laplacian, u.uViscosity))
        vel3 == QMul(vel2, u.uDamping)
        h1 == QAdd(height, vel3)
        h2 == QSub(h1, BrushAmount(u, c))
    IN  [ height |-> QAdd(h2, ImpactForce(u, c, 1)), vel |-> vel3 ]

\* grid states: a level b with one texel q pushed down by one, at rest or with
\* the velocity field p * (x - y)
GridState(q, b, p) ==
    [ c \in Texels |-> [ height |-> R(IF c = q THEN b - 1 ELSE b, 1),
                          vel |-> R(p * (c[1] - c[2]), 1) ] ]

\* brush radii in texels: the centre texel only, or the four neighbours too
TexelRadii == { RHalf, R(4, 3) }
\* impact lists: none, one, two at the same place and one next to it
ShaderImpactLists ==
    { << >>,
      << [ xy |-> << 1, 1 >>, z |-> RHalf ] >>,
      << [ xy |-> << 1, 1 >>, z |-> RHalf ], [ xy |-> << 1, 1 >>, z |-> RHalf ],
         [ xy |-> << 0, 1 >>, z |-> ROne ] >> }
Viscosities == { RZero, R(1, 10) }

IntegratorInput(grid, k, visc, brush, radius, impacts) ==
    [ fn |-> "integrators", done |-> FALSE,
      uniforms |-> [ tDiffuse |-> grid, uDamping |-> R(k, DampingDen), uViscosity |-> visc,
                     uMouseDown |-> brush[1], uMouse |-> brush[2], uStrength |-> RHalf,
                     uRadius |-> radius,
                     uImpacts |-> Pad(impacts, [ xy |-> << 0, 0 >>, z |-> RZero ]),
                     uImpactCount |-> Len(impacts) ],
      legacy |-> grid, viscous |-> grid ]

IntegratorsInit ==
    /\ SceneInit
    /\ AppInit
    /\ \E q \in Texels, b \in { 0, -1 }, p \in { 0, 1 }, k \in Dampings, visc \in Viscosities,
          brush \in { << FALSE, << 0, 0 >> >>, << TRUE, << 0, 0 >> >>, << TRUE, << 1, 1 >> >> },
          radius \in TexelRadii, impacts \in ShaderImpactLists :
          shader = IntegratorInput(GridState(q, b, p), k, visc, brush, radius, impacts)

\* one pass of each shader over the same target and uniforms
RunIntegrators ==
    /\ shader.fn = "integrators"
    /\ ~shader.done
    /\ shader' = [ shader EXCEPT
                     !.done = TRUE,
                     !.legacy = [ c \in Texels |-> LegacyFragment(shader.uniforms, c) ],
                     !.viscous = [ c \in Texels |-> ViscousFragment(shader.uniforms, c) ] ]
    /\ UNCHANGED << sceneVars, appVars >>

SpecIntegrators == IntegratorsInit /\ [][RunIntegrators]_vars

----------------------------------------------------------------------------
(* The app component's handlers: the console log and the code panel *)

\* at most this many addLog calls in a behaviour
MaxLogCalls == 102

\* the handlers of the panels log only among the first MaxPanelLogs entries
MaxPanelLogs == 3

\* prev.slice(-100)
KeepLogs == 100

\* texts a user leaves in the code panel: objects, a bare number, a repeated
\* member name, and texts that JSON.parse rejects (empty, unclosed, trailing
\* comma, missing colon, two values)
PanelTexts ==
    { << "{", "}" >>,
      << "{", "fogCutoffStart", ":", "0", "}" >>,
      << "{", "fogCutoffEnd", ":", "50", ",", "fogCutoffStart", ":", "250", "}" >>,
      << "{", "fogCutoffEnd", ":", "0", ",", "fogCutoffEnd", ":", "50", "}" >>,
      << "50" >>,
      << >>,
      << "{", "fogCutoffStart", ":", "0" >>,
      << "{", "fogCutoffStart", ":", "0", ",", "}" >>,
      << "{", "fogCutoffStart", "0", "}" >>,
      << "50", "50" >> }

\* the id of the next entry: ids (Date.now() and a random number) are unique and
\* are numbered here in the order of the addLog calls
NextLogId(log) == IF log = << >> THEN 1 ELSE log[Len(log)].id + 1

\* list.slice(-n)
SliceLast(list, n) ==
    IF Len(list) <= n THEN list ELSE SubSeq(list, Len(list) - n + 1, Len(list))

\* setLogs(prev => [...prev.slice(-100), newLog])
addLog(log, message) ==
    Append(SliceLast(log, KeepLogs), [ id |-> NextLogId(log), message |-> message ])

\* `Water config updated: ${changedKeys}`
ChangedMessage(key) ==
    IF key = "fogCutoffStart" THEN "Water config updated: fogCutoffStart"
    ELSE "Water config updated: fogCutoffEnd"

\* { ...prev, ...updates }: a number has no own members to spread
Spread(prev, key, n) ==
    JSONObject(SetMember(IF prev.type = "object" THEN prev.members ELSE << >>, key, n))

\* faulty variant of the blur handler: the configuration is set whether or not
\* the text parsed
onBlurConfigUnguarded(parsed, prev) == parsed.value

\* the try / catch of the blur handler: setWaterConfig runs only if JSON.parse
\* returned
onBlurConfig(parsed, prev) == IF parsed.ok THEN parsed.value ELSE prev

\* onCodeChange: setCodeText(e.target.value)
onCodeChange(text) ==
    /\ text # codeText
    /\ codeText' = text
    /\ UNCHANGED << logs, waterConfig, isSplitView >>
    /\ UNCHANGED << sceneVars, shader >>

\* onBlur of the code panel, and the effect that rewrites the text from a new
\* configuration
onBlur ==
    /\ NextLogId(logs) <= MaxPanelLogs
    /\ LET parsed == JSON_parse(codeText)
       IN  /\ waterConfig' = onBlurConfig(parsed, waterConfig)
           /\ logs' = addLog(logs, IF parsed.ok THEN "Water config updated from JSON."
                                   ELSE "Error parsing JSON.")
           /\ codeText' = IF parsed.ok THEN JSON_stringify(waterConfig') ELSE codeText
    /\ UNCHANGED isSplitView
    /\ UNCHANGED << sceneVars, shader >>

\* handleWaterConfigChange({ [key]: n }) from the control panel, and the effect
\* that rewrites the text
handleWaterConfigChange(key, n) ==
    /\ NextLogId(logs) <= MaxPanelLogs
    /\ waterConfig' = Spread(waterConfig, key, n)
    /\ logs' = addLog(logs, ChangedMessage(key))
    /\ codeText' = JSON_stringify(waterConfig')
    /\ UNCHANGED isSplitView
    /\ UNCHANGED << sceneVars, shader >>

handleToggleSplitView ==
    /\ NextLogId(logs) <= MaxLogCalls
    /\ isSplitView' = ~isSplitView
    /\ logs' = addLog(logs, IF ~isSplitView THEN "Split view enabled."
                            ELSE "Split view disabled.")
    /\ UNCHANGED << waterConfig, codeText >>
    /\ UNCHANGED << sceneVars, shader >>

\* onCopyCode (the clipboard is outside the model)
onCopyCode ==
    /\ NextLogId(logs) <= MaxPanelLogs
    /\ logs' = addLog(logs, "Code copied to clipboard.")
    /\ UNCHANGED << waterConfig, codeText, isSplitView >>
    /\ UNCHANGED << sceneVars, shader >>

\* the code panel and the control panel
NextCodePanel ==
    \/ \E text \in PanelTexts : onCodeChange(text)
    \/ onBlur
    \/ \E key \in KeyTokens, n \in { 0, 50 } : handleWaterConfigChange(key, n)

SpecCodePanel == Init /\ [][NextCodePanel]_vars

\* the console under a long run of logging handlers
NextConsole ==
    \/ handleToggleSplitView
    \/ onCopyCode

SpecConsole == Init /\ [][NextConsole]_vars

----------------------------------------------------------------------------
(* Properties *)

\* an execution of animate took place in this step (every execution ends by
\* storing a fresh requestAnimationFrame handle in frameIdRef)
FrameRan == frameIdRef' # frameIdRef

\* the effect body ran in this step: the materials of the frame are new ones
EffectRan == mounted' /\ ~mounted

\* the entries of uImpacts that the ripple shader loops over
GridForcedSet ==
    { simPass.uniforms.uImpacts[i] : i \in 1..simPass.uniforms.uImpactCount }

\* the entries of uVertexImpacts that the vertex shader loops over, projected
\* to grid UV
VertexDisplacedSet ==
    IF waterUniforms.uUseVertexImpacts
    THEN { << ToU(waterUniforms.uVertexImpacts[i][1]),
              ToV(waterUniforms.uVertexImpacts[i][2]),
              waterUniforms.uVertexImpacts[i][3] >> :
             i \in 1..waterUniforms.uVertexImpactCount }
    ELSE {}

\* C1: once the scene exists the two ripple grids are distinct buffers; the
\* last step read one and wrote the other, and after its swap the written grid
\* is the current one (A) and the grid it read is the scratch one (B).
BuffersDistinct ==
    mounts > 0 =>
        /\ renderTargetA # 0
        /\ renderTargetB # 0
        /\ renderTargetA # renderTargetB
        /\ simPass.read # simPass.write
        /\ simPass.write = renderTargetA
        /\ simPass.read = renderTargetB

\* the second frame of a scene: it read the grid the first frame wrote
BuffersDistinctWitness ==
    mounts = 1 /\ simPass.read = NewRenderTarget(0, 2) /\ simPass.write = NewRenderTarget(0, 1)

\* C2: at every composer.render() the water material's tRipple is the grid
\* written by the same frame's step, which is the current grid after the swap,
\* and is neither the grid the step read nor the scratch grid.
RenderSeesStep ==
    mounts > 0 =>
        /\ presented.tRipple = simPass.write
        /\ presented.tRipple # simPass.read
        /\ presented.tRipple = waterUniforms.tRipple
        /\ presented.tRipple = renderTargetA
        /\ presented.tRipple # renderTargetB

\* the first frame of a scene created after an earlier one was destroyed
RenderSeesStepWitness ==
    mounts = 2 /\ mounted /\ presented.tRipple = NewRenderTarget(1, 2)

\* C3: every execution of animate performs exactly one ripple pass, into a
\* grid other than the one the previous pass wrote, and one swap, before the
\* scene is rendered; no other step changes the grids or the roles.
OneStepPerFrame ==
    [][ IF FrameRan
        THEN /\ frameOps' = << "ripple", "compose" >>
             /\ simPass'.write # simPass.write
             /\ simPass'.write = renderTargetA'
             /\ simPass'.read = renderTargetB'
             /\ ~EffectRan => /\ renderTargetA' = renderTargetB
                              /\ renderTargetB' = renderTargetA
        ELSE UNCHANGED << simPass, renderTargetA, renderTargetB, presented, frameOps >>
      ]_vars

\* a frame at clock time 1 that followed another frame of the same scene
OneStepPerFrameWitness ==
    /\ mounted
    /\ frameTime = 1
    /\ frameOps = << "ripple", "compose" >>
    /\ simPass.read = NewRenderTarget(0, 2)

LiveWithinCapacity == Len(discreteImpactsRef) <= MAX_IMPACTS

\* C6: after the age-out of a frame at time now the live list is exactly the
\* spawned impacts with now - startTime < 5, in spawn order; an impact leaves
\* the live list only in a frame, and only when its age is 5 or more.
AgeOutExact ==
    [][ /\ FrameRan =>
              discreteImpactsRef'
                = SelectSeq(spawned', LAMBDA i : frameTime' - i.startTime < LIFETIME)
        /\ \A i \in Range(discreteImpactsRef) \ Range(discreteImpactsRef') :
              FrameRan /\ frameTime' - i.startTime >= LIFETIME
      ]_vars

\* a frame at the moment an impact reaches the age of 5: the impact is gone
AgeOutExactWitness ==
    /\ Len(spawned) = 1
    /\ frameTime - spawned[1].startTime = LIFETIME
    /\ discreteImpactsRef = << >>

\* C7 (as stated): an impact of age 5 or more forces no texel of the grid and
\* displaces no vertex, whatever was toggled while it was pending.
ExpiredContributeZero ==
    /\ \A k \in 1..Len(simPass.impacts) :
          frameTime - simPass.impacts[k].startTime >= LIFETIME
              => \A c \in Cells : k \notin RippleImpactHits(c, simPass.uniforms)
    /\ \A k \in VertexImpactActive(waterUniforms) :
          waterUniforms.uTime - waterUniforms.uVertexImpacts[k][4] < LIFETIME

StepInputsFixed ==
    [][ IF FrameRan
        THEN LET pre == IF EffectRan THEN NewSimUniforms ELSE simUniforms
             IN  /\ simPass'.uniforms.uMouse = pre.uMouse
                 /\ simPass'.uniforms.uMouseDown = pre.uMouseDown
                 /\ simPass'.uniforms.uRadius = pre.uRadius
                 /\ simPass'.uniforms.uImpactCount = Len(simPass'.impacts)
                 /\ \E n \in 0..Len(textureImpactsToProcessRef) :
                       simPass'.impacts = SubSeq(textureImpactsToProcessRef, 1, n)
                 /\ \A c \in Cells :
                       RippleBrushHit(c, simPass'.uniforms) = RippleBrushHit(c, pre)
                 /\ simUniforms'.uMouseDown = FALSE
        ELSE simPass' = simPass
      ]_vars

\* after a step that used the brush and one impact, the pointer has moved on
StepInputsFixedWitness ==
    /\ simPass.uniforms.uMouseDown
    /\ Len(simPass.impacts) = 1
    /\ \E c \in Cells : RippleBrushHit(c, simPass.uniforms)
    /\ simUniforms.uMouse # simPass.uniforms.uMouse
    /\ simUniforms.uMouseDown

\* C10: while the scene is destroyed no frame is pending and none runs, the
\* resize and pointer listeners do not fire, and the two grids and the
\* post-processing target of every scene created so far are disposed; while a
\* scene exists exactly one frame is pending.
SceneDestroyed ==
    [][ /\ mounted' => rafPending' = { frameIdRef' }
        /\ ~mounted' =>
              /\ rafPending' = {}
              /\ ~resizeListening'
              /\ ~PointerDelivered'
        /\ \A m \in 1..(IF mounted' THEN mounts' - 1 ELSE mounts') :
              /\ << "grid", NewRenderTarget(m - 1, 1) >> \in disposed'
              /\ << "grid", NewRenderTarget(m - 1, 2) >> \in disposed'
              /\ << "target", m >> \in disposed'
        /\ (~mounted /\ ~mounted') =>
              UNCHANGED << frameIdRef, simPass, presented, frameOps, rendererSize,
                           simUniforms, isInteracting >>
      ]_vars

\* the second scene was destroyed by an unmount, after frames had run in it
SceneDestroyedWitness ==
    /\ ~mounted
    /\ mounts = 2
    /\ containerRef = "null"
    /\ pointerListening
    /\ simPass.read = NewRenderTarget(1, 2)

\* the step of the last frame forced some observed texel with the brush
BrushForced(pass) == \E c \in Cells : RippleBrushHit(c, pass.uniforms)

\* C11 (as stated): a step applies brush forcing exactly in the frames in
\* which the pointer is on the surface and has not left.
BrushWhilePointerOnSurface ==
    [][ FrameRan => (BrushForced(simPass') <=> isInteracting) ]_vars

\* C11 (amended): a step applies brush forcing at the pointer's grid position
\* exactly when a pointer-move that hit the surface was handled with
\* mouseHoverEnabled on since the previous step and uMouse was not moved off
\* the grid afterwards.  The flag uMouseDown is raised only by such a move and
\* is cleared by every step, so a pointer that rests on the surface, or moves
\* with hover disabled, gets no brush forcing.
BrushOncePerMove ==
    [][ /\ FrameRan =>
              LET pre == IF EffectRan THEN NewSimUniforms ELSE simUniforms
              IN  /\ \A c \in Cells :
                        RippleBrushHit(c, simPass'.uniforms)
                          <=> (pre.uMouseDown /\ InRadius(CellUV(c), pre.uMouse, pre.uRadius))
                  /\ ~simUniforms'.uMouseDown
        /\ (simUniforms'.uMouseDown /\ ~simUniforms.uMouseDown) =>
              /\ ~FrameRan
              /\ config.mouseHoverEnabled
              /\ PointerDelivered
              /\ isInteracting'
              /\ simUniforms'.uMouse # OffScreen
        /\ \A t \in { PointerTarget, RandomTarget } :
              (config.mouseHoverEnabled /\ onPointerMove(TRUE, t)) =>
                  /\ simUniforms'.uMouseDown
                  /\ simUniforms'.uMouse = << ToU(t[1]), ToV(t[2]) >>
      ]_vars

\* a step that forced a texel after a move, followed by a step that forced
\* none although the pointer had not left
BrushOncePerMoveWitness ==
    /\ isInteracting
    /\ config.mouseHoverEnabled
    /\ simPass.uniforms.uMouse # OffScreen
    /\ ~simPass.uniforms.uMouseDown
    /\ ~BrushForced(simPass)
    /\ simPass.read = NewRenderTarget(0, 1)

\* C12: after a pointer-leave and until the next pointer-move that hits, uMouse
\* is off the grid, so no step forces any texel with the brush, for every
\* configurable radius, even when uMouseDown is still set by a move handled
\* before the leave in the same frame.
LeaveClearsBrush ==
    [][ /\ (mounts' > 0 /\ ~isInteracting') => simUniforms'.uMouse = OffScreen
        /\ (FrameRan /\ ~isInteracting) =>
              \A c \in Cells, r \in RadiusRange :
                  ~RippleBrushHit(c, [ simPass'.uniforms EXCEPT !.uRadius = r ])
      ]_vars

\* a step taken after a move and a leave in the same frame
LeaveClearsBrushWitness ==
    /\ ~isInteracting
    /\ simPass.uniforms.uMouseDown
    /\ simPass.uniforms.uMouse = OffScreen
    /\ ~BrushForced(simPass)

\* C13: a pointer-down appends an impact only when it is the primary pointer,
\* for a mouse the left button, and its ray hits the plane; then the same
\* impact (the hit point, the configured strength, the clock's time) is
\* appended to the live list and to the pending queue.  Any other pointer-down
\* leaves both lists as they were.
PointerDownGate ==
    [][ \A e \in PointerDownEvents({ PointerTarget, RandomTarget }) :
          onPointerDown(e, MaxSpawns) =>
              IF e.isPrimary /\ (e.pointerType = "mouse" => e.button = 0) /\ e.hit
              THEN \E i \in Range(spawned') :
                      /\ i.x = e.target[1]
                      /\ i.z = e.target[2]
                      /\ i.strength = impactStrength
                      /\ i.startTime = time
                      /\ discreteImpactsRef' = Append(discreteImpactsRef, i)
                      /\ textureImpactsToProcessRef' = Append(textureImpactsToProcessRef, i)
              ELSE UNCHANGED << discreteImpactsRef, textureImpactsToProcessRef >>
      ]_vars

\* a pointer-down at the pointer's target has put one impact in both lists
PointerDownGateWitness ==
    /\ Len(spawned) = 1
    /\ spawned[1].x = PointerTarget[1]
    /\ spawned[1].z = PointerTarget[2]
    /\ discreteImpactsRef = spawned
    /\ textureImpactsToProcessRef = spawned

\* C15: a resize is a step of its own, never part of a frame; it changes the
\* size of the renderer (with the composer and the camera) and leaves the two
\* ripple grids, their resolution, their roles and the uniforms of the
\* simulation as they are.  The grids keep the resolution simSize they were
\* created with.
ResizeLeavesGrids ==
    [][ /\ \A v \in Viewports :
              handleResize(v) =>
                  /\ ~FrameRan
                  /\ UNCHANGED << renderTargetA, renderTargetB, simResolution, simPass,
                                  simUniforms, waterUniforms, presented, frameOps,
                                  disposed >>
        /\ (rendererSize' # rendererSize /\ ~EffectRan) => ~FrameRan
        /\ mounts' > 0 => simResolution' = simSize
      ]_vars

\* the viewport was resized after the scene was created, and a frame has run since
ResizeLeavesGridsWitness ==
    /\ mounted
    /\ mounts = 1
    /\ rendererSize = 2
    /\ frameTime = 1
    /\ simResolution = simSize

\* the environment maps whose load is in flight
SkyLoading(l) == { u \in Skyboxes : << "sky", u >> \in l }

NeutralScene == [ background |-> [ kind |-> "neutral", tex |-> 0 ], environment |-> 0 ]

\* C14 (as stated): every frame that runs while an environment map is loading
\* performs the step and the render with the placeholder as the sky sampler
\* and, above water, the neutral background and no environment map.
LoadingShowsPlaceholder ==
    [][ (FrameRan /\ SkyLoading(loads') # {}) =>
            /\ frameOps' = << "ripple", "compose" >>
            /\ textures'.tSky = 0
            /\ ~cameraBelow => scene' = NeutralScene
      ]_vars

\* C14 (amended): loads never block the loop: while the scene exists a frame is
\* pending whatever is loading, and every frame performs the step and the
\* render.  Until the first environment map has finished loading, tSky is the
\* grey placeholder and above water the background is the neutral colour with
\* no environment map.  Once one has loaded it stays bound and shown above
\* water while a later one, or a normal map, loads; tSky changes only when a
\* scene is created or a sky load completes.
AssetsNeverBlock ==
    [][ /\ mounted' => rafPending' # {}
        /\ FrameRan =>
              /\ frameOps' = << "ripple", "compose" >>
              /\ simPass'.write = renderTargetA'
              /\ isUnderwater' = cameraBelow
              /\ skyTextureRef = 0 =>
                    /\ textures'.tSky = 0
                    /\ ~cameraBelow => scene' = NeutralScene
              /\ (skyTextureRef # 0 /\ ~cameraBelow) =>
                    /\ scene'.background = [ kind |-> "sky", tex |-> skyTextureRef ]
                    /\ scene'.environment = envMapRef
        /\ textures'.tSky # textures.tSky =>
              \/ EffectRan /\ textures'.tSky = 0
              \/ /\ textures'.tSky \in SkyLoading(loads) \ SkyLoading(loads')
                 /\ skyTextureRef' = textures'.tSky
                 /\ envMapRef' = textures'.tSky
      ]_vars

\* a frame above water while the second environment map is loading: the first
\* one is bound and shown
AssetsNeverBlockWitness ==
    /\ SkyLoading(loads) = { 2 }
    /\ skyboxUrl = 2
    /\ textures.tSky = DefaultSkybox
    /\ scene.background = [ kind |-> "sky", tex |-> DefaultSkybox ]
    /\ ~isUnderwater
    /\ frameOps = << "ripple", "compose" >>

\* C16: with zero forcing and damping in (0,1) a step never increases the sum
\* over all texels of height^2 + vel^2 (energies compared in the units of the
\* state after the step).
EnergyNonIncreasing ==
    [][ (shader.fn = "ripple" /\ shader'.steps = shader.steps + 1) =>
            Energy(shader'.grid) <= 4 * DampingDen * DampingDen * Energy(shader.grid)
      ]_vars

\* C17: with layer B disabled getBlendedWaveHeight returns exactly layer A's
\* height, whatever layers B and C, the use of layer C, the blend modes and the
\* mix factors are.
LayerBOffIsLayerA ==
    (shader.fn = "waves" /\ shader.done /\ ~shader.uUseNoiseLayerB) =>
        shader.out = RMul(shader.layerA.noise, R(shader.layerA.amplitude, 1))

\* layer B off, layer C on and added, all three layers non-zero
LayerBOffIsLayerAWitness ==
    /\ shader.fn = "waves" /\ shader.done
    /\ ~shader.uUseNoiseLayerB /\ shader.uUseNoiseLayerC
    /\ shader.uNoiseBlendingModeAB = 0 /\ shader.uNoiseBlendingModeBC = 0
    /\ shader.layerA.noise.n # 0 /\ shader.layerB.noise.n # 0 /\ shader.layerC.noise.n # 0
    /\ REq(shader.out, R(shader.layerA.noise.n * shader.layerA.amplitude, NoiseDen))

\* -1 <= x <= 1
InUnitRange(x) == RLe(R(-1, 1), x) /\ RLe(x, ROne)

\* C18: for operands h1, h2 in [-1,1] the multiply blend lies within [-1,1].
MultiplyRangeStable ==
    (/\ shader.fn = "blend" /\ shader.done /\ shader.mode = 1
     /\ InUnitRange(shader.h1) /\ InUnitRange(shader.h2)) =>
        InUnitRange(shader.out)

\* the multiply blend of -1 and 1 is the lower end of the range
MultiplyRangeStableWitness ==
    /\ shader.fn = "blend" /\ shader.done /\ shader.mode = 1
    /\ REq(shader.h1, R(-1, 1)) /\ REq(shader.h2, ROne)
    /\ REq(shader.out, R(-1, 1))

\* out is the linear interpolation at t between colour c1 at p1 and c2 at p2
Interpolates(out, t, c1, p1, c2, p2) ==
    REq(RMul(out, R(p2 - p1, 1)),
        RAdd(RMul(c1, R(p2 - t, 1)), RMul(c2, R(t - p1, 1))))

\* C19: for ascending positions of the active stops the lookup gives the first
\* stop's colour at or below the first position, the last active stop's colour
\* above the last active position, and between them the linear interpolation
\* of the two consecutive active stops that bracket t; only the active stops
\* enter the result.
RampLookupAscending ==
    LET u == shader.uniforms
        n == u.uColorRampStopCount
        pos == u.uColorRampPositions
        col == u.uColorRamp
    IN  (/\ shader.fn = "ramp" /\ shader.done
         /\ \A i \in 1 .. (n - 1) : pos[i] <= pos[i + 1]) =>
            /\ shader.t <= pos[1] => shader.out = col[1]
            /\ shader.t > pos[n] => shader.out = col[n]
            /\ \A i \in 1 .. (n - 1) :
                  (pos[i] < shader.t /\ shader.t <= pos[i + 1]) =>
                      Interpolates(shader.out, shader.t, col[i], pos[i], col[i + 1], pos[i + 1])

\* stops (0, black) and (0.5, white), a third stop configured but inactive,
\* t = 0.25: 50% grey
RampLookupAscendingWitness ==
    /\ shader.fn = "ramp" /\ shader.done
    /\ shader.uniforms.uColorRampStopCount = 2
    /\ shader.uniforms.uColorRampPositions[1] = 0
    /\ 2 * shader.uniforms.uColorRampPositions[2] = RampDen
    /\ 4 * shader.uniforms.uColorRampPositions[3] = RampDen
    /\ shader.uniforms.uColorRamp[1] = RZero
    /\ shader.uniforms.uColorRamp[2] = ROne
    /\ 4 * shader.t = RampDen
    /\ REq(shader.out, RHalf)

\* C20: whatever order the positions are configured in, the lookup interpolates
\* between the two active stops whose positions bracket t (stated where the
\* bracketing pair is unique: no other active stop shares a position with
\* either or lies between them).
RampReadInPositionOrder ==
    LET cfg == shader.config
        pos == cfg.colorRampStopPosition
        col == cfg.colorRampStopColor
        act == ActiveStops(cfg)
    IN  (shader.fn = "ramp" /\ shader.done) =>
            \A a \in act, b \in act :
                (/\ pos[a] < shader.t /\ shader.t <= pos[b]
                 /\ \A c \in act \ { a, b } : pos[c] < pos[a] \/ pos[c] > pos[b]) =>
                    Interpolates(shader.out, shader.t, col[a], pos[a], col[b], pos[b])

\* the stops the shader reads: the first uColorRampStopCount entries
ShaderStops(u) ==
    [ i \in 1 .. u.uColorRampStopCount |-> << u.uColorRamp[i], u.uColorRampPositions[i] >> ]

\* the enabled stops of a configuration in stop order
RECURSIVE ConfigStops(_, _)
ConfigStops(cfg, k) ==
    IF k > 5 THEN << >>
    ELSE (IF k \in ActiveStops(cfg)
          THEN << << cfg.colorRampStopColor[k], cfg.colorRampStopPosition[k] >> >>
          ELSE << >>) \o ConfigStops(cfg, k + 1)

\* C21: after any configuration changes the stop count given to the shader is
\* 2 plus the number of enabled toggles, lies in 2..5, and the stops the shader
\* reads are stops 1 and 2 with exactly the stops whose toggle is enabled.
RampStopsFollowToggles ==
    shader.fn = "rampconfig" =>
        /\ shader.uniforms.uColorRampStopCount = Cardinality(ActiveStops(shader.config))
        /\ shader.uniforms.uColorRampStopCount \in 2 .. 5
        /\ ShaderStops(shader.uniforms) = ConfigStops(shader.config, 1)

\* C22: the underwater state is recomputed by every frame from the camera's
\* submersion: after a frame the scene has fog (the configured fog colour as
\* fog colour and as background, the configured near and far, no environment
\* map, god rays visible) exactly if the camera was below the wave height at
\* its position; otherwise there is no fog and the god rays are hidden.
\* Nothing but a frame changes that state.
UnderwaterStatePerFrame ==
    [][ /\ FrameRan =>
              /\ isUnderwater' = cameraBelow
              /\ (sceneFog' # NoFog) = cameraBelow
              /\ raysVisible' = cameraBelow
              /\ cameraBelow =>
                    /\ sceneFog' = [ color |-> config.underwaterFogColor,
                                     near |-> config.fogCutoffStart,
                                     far |-> config.fogCutoffEnd ]
                    /\ scene'.background = [ kind |-> "fog", tex |-> config.underwaterFogColor ]
                    /\ scene'.environment = 0
              /\ ~cameraBelow => scene'.background.kind # "fog"
        /\ ~FrameRan => UNCHANGED << isUnderwater, sceneFog, raysVisible, scene >>
      ]_vars

\* a frame under water after the fog colour was changed while a fog existed
UnderwaterStatePerFrameWitness ==
    /\ isUnderwater /\ cameraBelow
    /\ config.underwaterFogColor = 2
    /\ sceneFog # NoFog /\ sceneFog.color = 2
    /\ scene.background = [ kind |-> "fog", tex |-> 2 ]
    /\ raysVisible
    /\ skyTextureRef # 0
    /\ frameOps = << "ripple", "compose" >>

\* the value a uniform has in a pass: the material's, or GLSL's zero when the
\* material does not supply it
UniformOr(u, name, default) == IF name \in DOMAIN u THEN u[name] ELSE default

\* C23: every simulation step uses the current value of every ripple physics
\* constant of the configuration: rippleDamping, rippleStrength, rippleRadius
\* and rippleViscosity.
StepUsesConfiguredPhysics ==
    [][ FrameRan =>
            /\ simPass'.uniforms.uDamping = config.rippleDamping
            /\ simPass'.uniforms.uStrength = config.rippleStrength
            /\ simPass'.uniforms.uRadius = config.rippleRadius
            /\ UniformOr(simPass'.uniforms, "uViscosity", 0) = config.rippleViscosity
      ]_vars

FrontEntries(arr, zero) ==
    Cardinality({ n \in 1 .. Len(arr) : \A i \in 1 .. n : arr[i] # zero })

QueueStart == Len(spawned) - Len(textureImpactsToProcessRef)

\* C26: each spawned impact forces the grid in at most one step.  The pending
\* queue is always the tail of the spawn history (whose entries are distinct),
\* its start never moves back, and a step applies exactly the impacts at the
\* positions it moves the start over (or drops them beyond the capacity): the
\* positions applied by different steps never overlap.
AppliedAtMostOnce ==
    [][ /\ \A i, j \in 1 .. Len(spawned') : spawned'[i] = spawned'[j] => i = j
        /\ textureImpactsToProcessRef'
              = SubSeq(spawned', QueueStart' + 1, Len(spawned'))
        /\ QueueStart' >= QueueStart
        /\ FrameRan =>
              /\ simPass'.impacts
                    = SubSeq(spawned, QueueStart + 1, QueueStart + Len(simPass'.impacts))
              /\ simPass'.uniforms.uImpactCount = Len(simPass'.impacts)
              /\ \A k \in 1 .. Len(simPass'.impacts) :
                    simPass'.uniforms.uImpacts[k]
                      = << ToU(spawned[QueueStart + k].x), ToV(spawned[QueueStart + k].z),
                           spawned[QueueStart + k].strength >>
              /\ QueueStart' >= QueueStart + Len(simPass'.impacts)
      ]_vars

\* the second impact was applied by the last step while the first, applied by
\* an earlier step, is still live
AppliedAtMostOnceWitness ==
    /\ Len(spawned) >= 2
    /\ simPass.impacts = << spawned[2] >>
    /\ textureImpactsToProcessRef = << >>
    /\ Len(discreteImpactsRef) >= 2
    /\ discreteImpactsRef[1] = spawned[1]
    /\ config.useTextureImpacts

\* C27: the pending grid-impact queue is empty after every frame, for every
\* setting of useTextureImpacts.
QueueEmptyAfterFrame ==
    [][ FrameRan => textureImpactsToProcessRef' = << >> ]_vars

\* C28: once no environment load is in flight, the sky texture, the
\* environment map and the tSky uniform are those of the configured skybox
\* URL, whatever order the loads completed in.
LatestSkyboxWins ==
    (mounts > 0 /\ SkyLoading(loads) = {}) =>
        /\ skyTextureRef = skyboxUrl
        /\ envMapRef = skyboxUrl
        /\ textures.tSky = skyboxUrl

\* a step of the code panel's blur handler: it appends one of its two messages
BlurStep ==
    /\ logs' # logs
    /\ logs'[Len(logs')].message \in { "Water config updated from JSON.",
                                       "Error parsing JSON." }

\* C29: when the code panel loses focus with text that is not valid JSON, the
\* water configuration is left unchanged and an error entry is logged; the
\* configuration is replaced only when the text parses successfully.
BlurKeepsConfigOnBadJson ==
    [][ BlurStep =>
          /\ ~JSON_parse(codeText).ok =>
                /\ waterConfig' = waterConfig
                /\ logs'[Len(logs')].message = "Error parsing JSON."
          /\ waterConfig' # waterConfig => JSON_parse(codeText).ok ]_vars

\* a text was accepted and replaced the configuration, then a text that does
\* not parse was rejected and is still in the panel
BlurKeepsConfigOnBadJsonWitness ==
    /\ Len(logs) >= 2
    /\ logs[Len(logs) - 1].message = "Water config updated from JSON."
    /\ logs[Len(logs)].message = "Error parsing JSON."
    /\ waterConfig # InitialWaterConfig
    /\ ~JSON_parse(codeText).ok

\* C30: the console log keeps only the last 100 entries: it never holds more
\* than 100, and they are the most recent ones in the order they were logged.
LogKeepsLast100 ==
    /\ Len(logs) <= KeepLogs
    /\ \A i \in 1..Len(logs) : logs[i].id = NextLogId(logs) - Len(logs) + i - 1

====
